---- MODULE Spec2Model ----
(***************************************************************************)
(* Road-segments report pipeline (streamlit_app.py).                       *)
(*                                                                         *)
(* One page load runs the script top to bottom: environment check, two     *)
(* fetches (download_and_save_csv), process_data (extract, join, metrics,  *)
(* sort, write two segment files, road roll-up, write two road files).     *)
(* A second session's preview / zip packager may read the output files at  *)
(* any moment.                                                             *)
(*                                                                         *)
(* Numbers: kilometre marks and counts are integers; a ratio x / y is kept *)
(* as the pair [num, den] and compared as the float division compares:     *)
(* y = 0 gives +inf (x > 0), -inf (x < 0) or NaN (x = 0).                  *)
(***************************************************************************)
EXTENDS Integers, Sequences, FiniteSets, TLC

\* ------------------------------------------------------------ bounds
MaxRoad == 2        \* roads are numbered 1 and MaxRoad
MaxKm == 1          \* the kilometre marks are 0 and MaxKm
MaxCount == 1       \* a count of a segment is 0 or MaxCount
MaxStatsRows == 2   \* rows of the statistics payload (pipeline specification)
MaxAggRows == 3     \* rows of the statistics payload (aggregation specification)

\* ------------------------------------------------------------ helpers
RECURSIVE SumSeq(_)
SumSeq(s) == IF s = <<>> THEN 0 ELSE Head(s) + SumSeq(Tail(s))

Column(df, col) == [i \in DOMAIN df |-> df[i][col]]

Prefixes(s) == {SubSeq(s, 1, k) : k \in 0..Len(s)}

\* ------------------------------------------------------------ payloads
ACC == "accident_count_by_severity"
INJ == "injured_count_by_severity"

\* a widget entry: its name and its data.items, a list of (key, value) pairs
Widget(name, items) == [name |-> name, items |-> items]

AccWidget(f, s) ==
    Widget(ACC, << <<"severity_fatal_count", f>>, <<"severity_severe_count", s>> >>)

InjWidget(k) == Widget(INJ, << <<"killed_count", k>> >>)

\* widgets of other names, as every statistics row carries
OTHER_ACC == "accident_count_by_accident_type"
OTHER_INJ == "injured_count_by_age_group"

\* one row of the statistics payload: its decoded data field
StatsRow(hasMeta, hasDates, sid, widgets) ==
    [has_meta |-> hasMeta, has_dates |-> hasDates,
     road_segment_id |-> sid, widgets |-> widgets]

\* one row of the reference payload; a junction is named by its kilometre mark
RefRow(sid, road, from, to) ==
    [segment_id |-> sid, road |-> road, from_km |-> from, from_name |-> from,
     to_km |-> to, to_name |-> to]

\* ------------------------------------------------------------ dict
\* dict(list of pairs): the last pair of a key wins
Dict(pairs) ==
    [k \in {pairs[i][1] : i \in DOMAIN pairs} |->
        LET last == CHOOSE i \in DOMAIN pairs :
                        /\ pairs[i][1] = k
                        /\ \A j \in DOMAIN pairs : pairs[j][1] = k => j <= i
        IN pairs[last][2]]

\* a | b on dicts: the right operand wins on a key of both
DictMerge(a, b) ==
    [k \in DOMAIN a \cup DOMAIN b |-> IF k \in DOMAIN b THEN b[k] ELSE a[k]]

\* ------------------------------------------------------------ extraction
\* (a variant that matches a widget by the family of its name, not its name)
Family(name) == IF name \in {ACC, OTHER_ACC} THEN "accident_count" ELSE "injured_count"

WidgetItems_ByFamily(widgets, name) ==
    LET hits == SelectSeq(widgets, LAMBDA w : Family(w.name) = Family(name))
    IN [i \in DOMAIN hits |-> hits[i].items]

\* [w['data']['items'] for w in widgets if w['name'] == name]
WidgetItems(widgets, name) ==
    LET hits == SelectSeq(widgets, LAMBDA w : w.name = name)
    IN [i \in DOMAIN hits |-> hits[i].items]

\* the [0] of the list comprehension raises IndexError on an empty list;
\* data['meta']['location_info'] raises KeyError without meta
ExtractFails(row) ==
    \/ ~row.has_meta
    \/ WidgetItems(row.widgets, ACC) = <<>>
    \/ WidgetItems(row.widgets, INJ) = <<>>

ExtractRecord(row) ==
    DictMerge(DictMerge([road_segment_id |-> row.road_segment_id],
                        Dict(WidgetItems(row.widgets, ACC)[1])),
              Dict(WidgetItems(row.widgets, INJ)[1]))

\* the loop over df.iterrows(): all_list, or the first exception ends it
AnyExtractFails(stats) == \E i \in DOMAIN stats : ExtractFails(stats[i])

AllList(stats) == [i \in DOMAIN stats |-> ExtractRecord(stats[i])]

\* ------------------------------------------------------------ join
\* pd.merge(left, right, left_on, right_on): inner join, rows in the order of
\* the left keys, the matches of one left row in the order of the right table
RECURSIVE Merge(_, _)
Merge(left, right) ==
    IF left = <<>> THEN <<>>
    ELSE LET l == Head(left)
             hits == SelectSeq(right, LAMBDA r : r.segment_id = l.road_segment_id)
         IN [i \in DOMAIN hits |-> DictMerge(l, hits[i])] \o Merge(Tail(left), right)

\* ------------------------------------------------------------ ratios
Div(n, d) == [num |-> n, den |-> d]

IsNaN(r) == r.den = 0 /\ r.num = 0
IsPosInf(r) == r.den = 0 /\ r.num > 0
IsNegInf(r) == r.den = 0 /\ r.num < 0
IsFinite(r) == r.den # 0

\* a > b as floats, neither NaN
GreaterThan(a, b) ==
    IF IsPosInf(a) THEN ~IsPosInf(b)
    ELSE IF IsNegInf(a) THEN FALSE
    ELSE IF IsPosInf(b) THEN FALSE
    ELSE IF IsNegInf(b) THEN TRUE
    ELSE LET sg == IF (a.den > 0) = (b.den > 0) THEN 1 ELSE -1
         IN sg * a.num * b.den > sg * b.num * a.den

SameValue(a, b) == ~IsNaN(a) /\ ~IsNaN(b) /\ ~GreaterThan(a, b) /\ ~GreaterThan(b, a)

\* ------------------------------------------------------------ metrics
WithMetrics(row) ==
    LET km == row.to_km - row.from_km
        fs == row.severity_fatal_count + row.severity_severe_count
    IN DictMerge(row,
         [total_km |-> km,
          fatal_severe_accidents |-> fs,
          fatal_severe_accidents_per_km |-> Div(fs, km),
          fatal_accidents_per_km |-> Div(row.severity_fatal_count, km)])

Joined(stats, ref) ==
    LET m == Merge(AllList(stats), ref)
    IN [i \in DOMAIN m |-> WithMetrics(m[i])]

\* ------------------------------------------------------------ sort
IndexOrders(n) ==
    {p \in [1..n -> 1..n] : \A i, j \in 1..n : i # j => p[i] # p[j]}

\* df.sort_values(col, ascending=False): kind defaults to 'quicksort', which
\* is not a stable sort, and na_position to 'last'.  The rows whose key is not
\* NaN come first, in some descending order (rows of equal key in any order);
\* the NaN rows follow, in the order they had.
SortOrders(df, col) ==
    {p \in IndexOrders(Len(df)) :
        \A i, j \in DOMAIN df : i < j =>
            LET a == df[p[i]][col]
                b == df[p[j]][col]
            IN /\ IsNaN(a) => IsNaN(b)
               /\ (IsNaN(a) /\ IsNaN(b)) => p[i] < p[j]
               /\ (~IsNaN(a) /\ ~IsNaN(b)) => ~GreaterThan(b, a)}

SortValues(df, col) ==
    {[i \in DOMAIN df |-> df[p[i]]] : p \in SortOrders(df, col)}

\* ------------------------------------------------------------ segment table
segment_columns ==
    {"road_segment_id", "road", "road_segment_name", "from_km", "from_name",
     "to_km", "to_name", "total_km", "severity_fatal_count",
     "severity_severe_count", "severity_light_count", "start_year", "end_year",
     "total_accidents_count", "killed_count", "severe_injured_count",
     "light_injured_count", "total_injured_count", "segment_id",
     "fatal_severe_accidents", "fatal_severe_accidents_per_km",
     "fatal_accidents_per_km"}

\* df[[col for col in columns if col in df.columns]]
SelectColumns(df, cols) ==
    [i \in DOMAIN df |-> [k \in DOMAIN df[i] \cap cols |-> df[i][k]]]

\* the values df_total can take after the sort and the column selection
SegmentTables(stats, ref) ==
    {SelectColumns(t, segment_columns) :
        t \in SortValues(Joined(stats, ref), "fatal_severe_accidents_per_km")}

\* df.loc[df['total_km'] >= 1]
OverKm(df) == SelectSeq(df, LAMBDA r : r.total_km >= 1)

\* ------------------------------------------------------------ road table
agg_columns ==
    {"total_km", "severity_fatal_count", "severity_severe_count",
     "severity_light_count", "total_accidents_count", "killed_count",
     "severe_injured_count", "light_injured_count", "total_injured_count"}

RECURSIVE SortedKeys(_)
SortedKeys(S) ==
    IF S = {} THEN <<>>
    ELSE LET m == CHOOSE x \in S : \A y \in S : x <= y
         IN <<m>> \o SortedKeys(S \ {m})

\* the rows of one group, in table order
Group(df, road) == SelectSeq(df, LAMBDA r : r.road = road)

\* groupby(['road']).sum()[agg_columns]: one row per road, the sums of the
\* aggregated columns the table has
GroupSums(df, road) ==
    LET g == Group(df, road)
    IN [c \in agg_columns \cap DOMAIN g[1] |-> SumSeq(Column(g, c))]

\* sort_values('from_km').groupby(['road'])['from_name'].first()
FirstJunction(df, road) ==
    LET g == Group(df, road)
        i == CHOOSE i \in DOMAIN g : \A j \in DOMAIN g : g[i].from_km <= g[j].from_km
    IN g[i].from_name

\* sort_values('to_km').groupby(['road'])['to_name'].last()
LastJunction(df, road) ==
    LET g == Group(df, road)
        i == CHOOSE i \in DOMAIN g : \A j \in DOMAIN g : g[i].to_km >= g[j].to_km
    IN g[i].to_name

RoadRow(df, road) ==
    LET s == DictMerge(GroupSums(df, road),
                       [from_name |-> FirstJunction(df, road),
                        to_name |-> LastJunction(df, road)])
        fs == s.severity_fatal_count + s.severity_severe_count
    IN DictMerge(DictMerge([road |-> road], s),
         [fatal_severe_accidents |-> fs,
          fatal_severe_accidents_per_km |-> Div(fs, s.total_km),
          fatal_accidents_per_km |-> Div(s.severity_fatal_count, s.total_km)])

\* (a variant that groups the segments of at least 1 km only)
Grouped_OverKm(df) ==
    LET keys == SortedKeys({OverKm(df)[i].road : i \in DOMAIN OverKm(df)})
    IN [i \in DOMAIN keys |-> RoadRow(OverKm(df), keys[i])]

\* the grouped table before its sort: one row per road, in key order
Grouped(df) ==
    LET keys == SortedKeys({df[i].road : i \in DOMAIN df})
    IN [i \in DOMAIN keys |-> RoadRow(df, keys[i])]

\* the values df_roads can take
RoadTables(df) == SortValues(Grouped(df), "fatal_severe_accidents_per_km")

\* ------------------------------------------------------------ files
SOURCE_FILES == {"road_segments.csv", "infographics_data_cache_5_years.csv"}

OUTPUT_FILES ==
    {"all_segments.csv", "all_segments_1_km_and_above.csv",
     "all_roads.csv", "all_roads_1_km_and_above.csv"}

\* what a reader of a file sees: nothing (exists = FALSE), a file opened for
\* writing and so truncated (header = FALSE), a header and the rows flushed so
\* far, or everything to_csv wrote (whole = TRUE)
NoFile == [exists |-> FALSE, whole |-> FALSE, header |-> FALSE, rows |-> <<>>]
Truncated == [exists |-> TRUE, whole |-> FALSE, header |-> FALSE, rows |-> <<>>]
Flushed(rows) == [exists |-> TRUE, whole |-> FALSE, header |-> TRUE, rows |-> rows]
Whole(rows) == [exists |-> TRUE, whole |-> TRUE, header |-> TRUE, rows |-> rows]

\* ------------------------------------------------------------ inputs
\* widget lists of the pipeline specification: well formed, one of the two
\* named widgets missing, one of them twice
PipeWidgetLists ==
    {<<AccWidget(MaxCount, 0), InjWidget(MaxCount)>>,
     <<Widget(OTHER_ACC, AccWidget(0, 0).items), InjWidget(0)>>,
     <<AccWidget(0, 0), Widget(OTHER_INJ, InjWidget(0).items)>>,
     <<AccWidget(MaxCount, 0), AccWidget(0, 0), InjWidget(0)>>,
     <<AccWidget(0, 0), InjWidget(0), InjWidget(MaxCount)>>}

\* statistics payloads of the pipeline specification: row i is segment i; meta
\* and its date range vary in the first row, the one the metadata is read from
PipeStats ==
    UNION {
        {[i \in 1..n |-> StatsRow(m[1], m[2], i, w[i])] :
            m \in {<<FALSE, FALSE>>, <<TRUE, FALSE>>, <<TRUE, TRUE>>},
            w \in [1..n -> PipeWidgetLists]} : n \in 0..MaxStatsRows}

\* reference payloads of the pipeline specification: the first n segments of
\* road 1, the first of them of length zero
PipeRefs ==
    {[i \in 1..n |-> RefRow(i, 1, 0, IF i = 1 THEN 0 ELSE MaxKm)] :
        n \in 0..MaxStatsRows}

\* payloads of the aggregation specification: row i is segment i, on road 1 or
\* MaxRoad, from mark 0 to mark 0 or MaxKm or from mark MaxKm back to mark 0,
\* with no accident, MaxCount fatal ones or MaxCount severe ones
AggCounts == {<<0, 0>>, <<MaxCount, 0>>, <<0, MaxCount>>}

AggStats(counts) ==
    [i \in DOMAIN counts |->
        StatsRow(TRUE, TRUE, i,
                 <<AccWidget(counts[i][1], counts[i][2]), InjWidget(counts[i][1])>>)]

AggMarks == {<<0, 0>>, <<0, MaxKm>>, <<MaxKm, 0>>}

AggRefs(n) ==
    {[i \in 1..n |-> RefRow(i, r[i], k[i][1], k[i][2])] :
        r \in [1..n -> {1, MaxRoad}], k \in [1..n -> AggMarks]}

\* what requests.get(url, timeout=30) and response.json() give
Responses(payloads) ==
    {[status |-> "request_error", rows |-> <<>>],
     [status |-> "unexpected_structure", rows |-> <<>>]}
    \cup {[status |-> "ok", rows |-> r] : r \in payloads}

\* the output files an earlier page load left behind
PrevStats == <<StatsRow(TRUE, TRUE, 1, <<AccWidget(0, 0), InjWidget(0)>>)>>
PrevRef == <<RefRow(1, 1, 0, MaxKm)>>
PrevSegments == CHOOSE t \in SegmentTables(PrevStats, PrevRef) : TRUE
PrevRoads == CHOOSE t \in RoadTables(PrevSegments) : TRUE

PrevOutput ==
    [f \in OUTPUT_FILES |->
        CASE f = "all_segments.csv" -> Whole(PrevSegments)
          [] f = "all_segments_1_km_and_above.csv" -> Whole(OverKm(PrevSegments))
          [] f = "all_roads.csv" -> Whole(PrevRoads)
          [] f = "all_roads_1_km_and_above.csv" -> Whole(OverKm(PrevRoads))]

\* ------------------------------------------------------------ state
VARIABLES
    env,              \* which of the two URLs the environment sets
    pc,               \* where the script is
    fetched,          \* the calls of download_and_save_csv so far, by api name
    success1,         \* the first download: "none" before it, "ok", "failed"
    success2,         \* result of the second download
    metadata,         \* "empty" ({}), "none" (None), "no_dates", "dates"
    source,           \* the two source files, by name
    df_total,
    df_total_over_km,
    df_roads,
    df_roads_over_km,
    output,           \* the four output files, by name
    opened,           \* the files this run opened for writing
    written,          \* the files this run wrote to the end
    result,           \* "none", "ok", or the exception process_data caught
    observed          \* what the last read of another session saw

vars ==
    <<env, pc, fetched, success1, success2, metadata, source, df_total,
      df_total_over_km, df_roads, df_roads_over_km, output, opened, written,
      result, observed>>

tables == <<df_total, df_total_over_km, df_roads, df_roads_over_km>>
downloads == <<fetched, success1, success2, metadata, source>>

Terminal == {"stopped_config", "stopped_download", "stopped_process", "done"}

Init ==
    /\ env \in [ROAD_SEGMENTS_URL : BOOLEAN, INFOGRAPHICS_URL : BOOLEAN]
    /\ pc = "env_check"
    /\ fetched = <<>>
    /\ success1 = "none"
    /\ success2 = "none"
    /\ metadata = "empty"
    /\ source = [f \in SOURCE_FILES |-> NoFile]
    /\ df_total = <<>>
    /\ df_total_over_km = <<>>
    /\ df_roads = <<>>
    /\ df_roads_over_km = <<>>
    /\ output \in {[f \in OUTPUT_FILES |-> NoFile], PrevOutput}
    /\ opened = {}
    /\ written = {}
    /\ result = "none"
    /\ observed = [file |-> "none", whole |-> TRUE]

\* ------------------------------------------------------------ page load
\* (a variant that stops only when both URLs are missing)
EnvMissing_Both == ~env.ROAD_SEGMENTS_URL /\ ~env.INFOGRAPHICS_URL

\* if not ROAD_SEGMENTS_URL or not INFOGRAPHICS_URL
EnvMissing == ~env.ROAD_SEGMENTS_URL \/ ~env.INFOGRAPHICS_URL

EnvCheck ==
    /\ pc = "env_check"
    /\ pc' = IF EnvMissing THEN "stopped_config" ELSE "download_road_segments"
    /\ UNCHANGED <<env, downloads, tables, output, opened, written, result, observed>>

\* json.loads(rows[0]['data']).get('meta'), by what process_data reads of it
MetaOf(row) ==
    IF ~row.has_meta THEN "none"
    ELSE IF row.has_dates THEN "dates" ELSE "no_dates"

\* download_and_save_csv: <<success, metadata, whether the file is written>>
\* for a response and whether df.to_csv succeeds; the IndexError of rows[0] on
\* an empty statistics payload is caught like every other exception
DownloadResult(resp, infographics, saves) ==
    IF resp.status # "ok" THEN <<"failed", "empty", FALSE>>
    ELSE IF infographics /\ resp.rows = <<>> THEN <<"failed", "empty", FALSE>>
    ELSE LET md == IF infographics THEN MetaOf(resp.rows[1]) ELSE "empty"
         IN <<IF saves THEN "ok" ELSE "failed", md, saves>>

DownloadRoadSegments ==
    /\ pc = "download_road_segments"
    /\ \E resp \in Responses(PipeRefs), saves \in BOOLEAN :
        LET r == DownloadResult(resp, FALSE, saves)
        IN /\ success1' = r[1]
           /\ source' = IF r[3]
                        THEN [source EXCEPT !["road_segments.csv"] = Whole(resp.rows)]
                        ELSE source
           /\ opened' = IF r[3] THEN opened \cup {"road_segments.csv"} ELSE opened
           /\ written' = IF r[3] THEN written \cup {"road_segments.csv"} ELSE written
    /\ fetched' = Append(fetched, "road_segments.csv")
    /\ pc' = "download_infographics"
    /\ UNCHANGED <<env, success2, metadata, tables, output, result, observed>>

DownloadInfographics ==
    /\ pc = "download_infographics"
    /\ \E resp \in Responses(PipeStats), saves \in BOOLEAN :
        LET r == DownloadResult(resp, TRUE, saves)
        IN /\ success2' = r[1]
           /\ metadata' = r[2]
           /\ source' = IF r[3]
                        THEN [source EXCEPT
                                !["infographics_data_cache_5_years.csv"] = Whole(resp.rows)]
                        ELSE source
           /\ opened' = IF r[3]
                        THEN opened \cup {"infographics_data_cache_5_years.csv"}
                        ELSE opened
           /\ written' = IF r[3]
                         THEN written \cup {"infographics_data_cache_5_years.csv"}
                         ELSE written
    /\ fetched' = Append(fetched, "infographics_data_cache_5_years.csv")
    /\ pc' = "download_check"
    /\ UNCHANGED <<env, success1, tables, output, result, observed>>

\* if success1 and success2 ... else st.stop()
DownloadCheck ==
    /\ pc = "download_check"
    /\ pc' = IF success1 = "ok" /\ success2 = "ok" THEN "process" ELSE "stopped_download"
    /\ UNCHANGED <<env, downloads, tables, output, opened, written, result, observed>>

\* ------------------------------------------------------------ process_data
\* the first exception of the in-memory part of process_data, "none" without:
\* metadata.get on None, date_range[0] on an empty list, read_csv on the
\* column-less file of an empty reference payload (the column selection of the
\* merge would raise next), the extraction loop
ProcessError(md, stats, ref) ==
    CASE md = "none" -> "AttributeError"
      [] md \in {"empty", "no_dates"} -> "IndexError: date_range"
      [] ref = <<>> -> "EmptyDataError"
      [] AnyExtractFails(stats) -> "extraction"
      [] OTHER -> "none"

\* lines 84-150: read, extract, join, metrics, sort, select; then nxt
ProcessSegmentsThen(nxt) ==
    /\ pc = "process"
    /\ LET stats == source["infographics_data_cache_5_years.csv"].rows
           ref == source["road_segments.csv"].rows
           err == ProcessError(metadata, stats, ref)
       IN IF err # "none"
          THEN /\ result' = err
               /\ pc' = "stopped_process"
               /\ UNCHANGED df_total
          ELSE /\ df_total' \in SegmentTables(stats, ref)
               /\ pc' = nxt
               /\ UNCHANGED result
    /\ UNCHANGED <<env, downloads, df_total_over_km, df_roads, df_roads_over_km,
                   output, opened, written, observed>>

ProcessSegments == ProcessSegmentsThen("write_all_segments")

\* the file written at each position, the table it is written from, and the
\* position after it
WritePositions ==
    {"write_all_segments", "write_all_segments_1_km_and_above",
     "write_all_roads", "write_all_roads_1_km_and_above"}

FileAt(p) ==
    CASE p = "write_all_segments" -> "all_segments.csv"
      [] p = "write_all_segments_1_km_and_above" -> "all_segments_1_km_and_above.csv"
      [] p = "write_all_roads" -> "all_roads.csv"
      [] p = "write_all_roads_1_km_and_above" -> "all_roads_1_km_and_above.csv"

TableAt(p) ==
    CASE p = "write_all_segments" -> df_total
      [] p = "write_all_segments_1_km_and_above" -> df_total_over_km
      [] p = "write_all_roads" -> df_roads
      [] p = "write_all_roads_1_km_and_above" -> df_roads_over_km

After(p) ==
    CASE p = "write_all_segments" -> "filter_segments"
      [] p = "write_all_segments_1_km_and_above" -> "aggregate_roads"
      [] p = "write_all_roads" -> "filter_roads"
      [] p = "write_all_roads_1_km_and_above" -> "return"

\* df.to_csv(path): open(path, 'w') truncates the file in place
OpenWrite ==
    /\ pc \in WritePositions
    /\ FileAt(pc) \notin opened
    /\ output' = [output EXCEPT ![FileAt(pc)] = Truncated]
    /\ opened' = opened \cup {FileAt(pc)}
    /\ UNCHANGED <<env, pc, downloads, tables, written, result, observed>>

\* the buffer is flushed part way: the header and some of the rows
FlushWrite ==
    /\ pc \in WritePositions
    /\ FileAt(pc) \in opened
    /\ ~output[FileAt(pc)].header
    /\ \E rows \in Prefixes(TableAt(pc)) \ {TableAt(pc)} :
        output' = [output EXCEPT ![FileAt(pc)] = Flushed(rows)]
    /\ UNCHANGED <<env, pc, downloads, tables, opened, written, result, observed>>

\* the rest is written and the file closed
FinishWrite ==
    /\ pc \in WritePositions
    /\ FileAt(pc) \in opened
    /\ output' = [output EXCEPT ![FileAt(pc)] = Whole(TableAt(pc))]
    /\ written' = written \cup {FileAt(pc)}
    /\ pc' = After(pc)
    /\ UNCHANGED <<env, downloads, tables, opened, result, observed>>

\* to_csv raises (no permission at open, disk full later): the file stays as
\* it is, process_data returns False and the script stops
FailWrite ==
    /\ pc \in WritePositions
    /\ result' = "IOError"
    /\ pc' = "stopped_process"
    /\ UNCHANGED <<env, downloads, tables, output, opened, written, observed>>

\* df_total.loc[df_total['total_km'] >= 1]
FilterSegments ==
    /\ pc = "filter_segments"
    /\ df_total_over_km' = OverKm(df_total)
    /\ pc' = "write_all_segments_1_km_and_above"
    /\ UNCHANGED <<env, downloads, df_total, df_roads, df_roads_over_km, output,
                   opened, written, result, observed>>

\* lines 160-181: group, sum, junctions, metrics, sort; then nxt
AggregateRoadsThen(nxt) ==
    /\ pc = "aggregate_roads"
    /\ df_roads' \in RoadTables(df_total)
    /\ pc' = nxt
    /\ UNCHANGED <<env, downloads, df_total, df_total_over_km, df_roads_over_km,
                   output, opened, written, result, observed>>

AggregateRoads == AggregateRoadsThen("write_all_roads")

FilterRoads ==
    /\ pc = "filter_roads"
    /\ df_roads_over_km' = OverKm(df_roads)
    /\ pc' = "write_all_roads_1_km_and_above"
    /\ UNCHANGED <<env, downloads, df_total, df_total_over_km, df_roads, output,
                   opened, written, result, observed>>

\* return True, len(df_total), ...
Return ==
    /\ pc = "return"
    /\ result' = "ok"
    /\ pc' = "done"
    /\ UNCHANGED <<env, downloads, tables, output, opened, written, observed>>

\* ------------------------------------------------------------ another session
\* pd.read_csv(OUTPUT_DATA_DIR / ...) of the preview, zipf.write of the zip
\* packager: a read of an output file that is there, at any moment
Read ==
    /\ \E f \in OUTPUT_FILES :
        /\ output[f].exists
        /\ observed' = [file |-> f, whole |-> output[f].whole]
    /\ UNCHANGED <<env, pc, downloads, tables, output, opened, written, result>>

Next ==
    \/ EnvCheck
    \/ DownloadRoadSegments
    \/ DownloadInfographics
    \/ DownloadCheck
    \/ ProcessSegments
    \/ OpenWrite
    \/ FlushWrite
    \/ FinishWrite
    \/ FailWrite
    \/ FilterSegments
    \/ AggregateRoads
    \/ FilterRoads
    \/ Return
    \/ Read

Spec == Init /\ [][Next]_vars

\* ------------------------------------------------------------ aggregation
\* The tables alone: process_data from line 109 to line 188 without its file
\* writes, on the source files two successful downloads left.
InitAgg ==
    /\ env = [ROAD_SEGMENTS_URL |-> TRUE, INFOGRAPHICS_URL |-> TRUE]
    /\ pc = "process"
    /\ fetched = <<"road_segments.csv", "infographics_data_cache_5_years.csv">>
    /\ success1 = "ok"
    /\ success2 = "ok"
    /\ metadata = "dates"
    /\ \E n \in 1..MaxAggRows :
        \E counts \in [1..n -> AggCounts], ref \in AggRefs(n) :
            source = [f \in SOURCE_FILES |->
                        IF f = "road_segments.csv" THEN Whole(ref)
                        ELSE Whole(AggStats(counts))]
    /\ df_total = <<>>
    /\ df_total_over_km = <<>>
    /\ df_roads = <<>>
    /\ df_roads_over_km = <<>>
    /\ output = [f \in OUTPUT_FILES |-> NoFile]
    /\ opened = SOURCE_FILES
    /\ written = SOURCE_FILES
    /\ result = "none"
    /\ observed = [file |-> "none", whole |-> TRUE]

\* lines 109-156: df_total and df_total_over_km
ApplySegments ==
    /\ pc = "process"
    /\ LET stats == source["infographics_data_cache_5_years.csv"].rows
           ref == source["road_segments.csv"].rows
           err == ProcessError(metadata, stats, ref)
       IN IF err # "none"
          THEN /\ result' = err
               /\ pc' = "stopped_process"
               /\ UNCHANGED <<df_total, df_total_over_km>>
          ELSE /\ df_total' \in SegmentTables(stats, ref)
               /\ df_total_over_km' = OverKm(df_total')
               /\ pc' = "aggregate_roads"
               /\ UNCHANGED result
    /\ UNCHANGED <<env, downloads, df_roads, df_roads_over_km, output, opened,
                   written, observed>>

\* lines 160-187: df_roads and df_roads_over_km
ApplyRoads ==
    /\ pc = "aggregate_roads"
    /\ df_roads' \in RoadTables(df_total)
    /\ df_roads_over_km' = OverKm(df_roads')
    /\ pc' = "done"
    /\ result' = "ok"
    /\ UNCHANGED <<env, downloads, df_total, df_total_over_km, output, opened,
                   written, observed>>

NextAgg ==
    \/ ApplySegments
    \/ ApplyRoads

SpecAgg == InitAgg /\ [][NextAgg]_vars

\* ------------------------------------------------------------ properties
StatsRows == source["infographics_data_cache_5_years.csv"].rows
RefRows == source["road_segments.csv"].rows

\* the positions of the script from the first file write of process_data on
PastProcess ==
    WritePositions \cup {"filter_segments", "aggregate_roads", "filter_roads",
                         "return", "done"}

Named(row, name) == {j \in DOMAIN row.widgets : row.widgets[j].name = name}

\* C1: a run has no partial success: when it has ended, it wrote all four
\* output files or none of them.
C1_AllOrNothing ==
    pc \in Terminal =>
        \/ written \cap OUTPUT_FILES = {}
        \/ OUTPUT_FILES \subseteq written

\* C2: a reader of an output file never sees a partially written file: what
\* it reads is everything some run wrote.
C2_NoPartialRead == observed.whole

\* C3: with one of the two URLs missing the run ends before any fetch: no call
\* of download_and_save_csv and no file write happens.
C3_ConfigErrorBeforeFetch ==
    (~env.ROAD_SEGMENTS_URL \/ ~env.INFOGRAPHICS_URL) =>
        /\ pc \in {"env_check", "stopped_config"}
        /\ fetched = <<>>
        /\ opened = {}
        /\ result = "none"

C3_Witness ==
    /\ ~env.ROAD_SEGMENTS_URL
    /\ env.INFOGRAPHICS_URL
    /\ pc = "stopped_config"

\* C4: a failed fetch aborts the run at once: no further fetch is issued,
\* process_data is not invoked and no output file is written.
C4_FetchFailureAborts ==
    /\ success1 = "failed" => fetched = <<"road_segments.csv">>
    /\ (success1 = "failed" \/ success2 = "failed") =>
          /\ pc \notin PastProcess \cup {"process", "stopped_process"}
          /\ opened \cap OUTPUT_FILES = {}

\* C5: a statistics row without a widget named accident_count_by_severity, or
\* without one named injured_count_by_severity, makes the run fail: no record
\* is emitted for the segment table and no segment file is written.
C5_MissingWidgetAborts ==
    (\E i \in DOMAIN StatsRows :
        Named(StatsRows[i], ACC) = {} \/ Named(StatsRows[i], INJ) = {}) =>
        /\ pc \notin PastProcess
        /\ result # "ok"
        /\ df_total = <<>>
        /\ opened \cap OUTPUT_FILES = {}

C5_Witness ==
    /\ \E i \in DOMAIN StatsRows : Named(StatsRows[i], ACC) = {}
    /\ \A i \in DOMAIN StatsRows : StatsRows[i].has_meta
    /\ pc = "stopped_process"
    /\ result = "extraction"

\* C6: a statistics row with more than one widget named
\* accident_count_by_severity, or more than one named
\* injured_count_by_severity, makes the run fail: the extractor never picks
\* one of them and goes on.
C6_DuplicateWidgetAborts ==
    (\E i \in DOMAIN StatsRows :
        \/ Cardinality(Named(StatsRows[i], ACC)) > 1
        \/ Cardinality(Named(StatsRows[i], INJ)) > 1) =>
        /\ pc \notin PastProcess
        /\ result # "ok"

\* C7: a first statistics row without meta, or with a meta without a date
\* range, is no error: the run does not fail on the missing metadata.
C7_AbsentMetaIsNoError ==
    (success2 = "ok" /\ metadata \in {"none", "no_dates"}) =>
        result \notin {"AttributeError", "IndexError: date_range"}

\* the sum of a column over the rows of a table at the indices S
RECURSIVE SumOver(_, _, _)
SumOver(df, col, S) ==
    IF S = {} THEN 0
    ELSE LET i == CHOOSE i \in S : TRUE
         IN df[i][col] + SumOver(df, col, S \ {i})

\* the joined segment table before its sort and before any filter
JoinedNow == Joined(StatsRows, RefRows)

CountColumns ==
    {"total_km", "severity_fatal_count", "severity_severe_count", "killed_count"}

\* C8: the road table has exactly one row per road of the full joined segment
\* table, segments under 1 km included, and each count column of a road row
\* is the sum of that column over exactly the joined rows of that road.
C8_RoadSums ==
    pc = "done" =>
        LET joined == JoinedNow
            of(road) == {j \in DOMAIN joined : joined[j].road = road}
        IN /\ \A j \in DOMAIN joined :
                Cardinality({i \in DOMAIN df_roads :
                                df_roads[i].road = joined[j].road}) = 1
           /\ \A i \in DOMAIN df_roads :
                LET mine == of(df_roads[i].road)
                IN /\ mine # {}
                   /\ \A c \in CountColumns :
                         df_roads[i][c] = SumOver(joined, c, mine)

C8_Witness ==
    /\ pc = "done"
    /\ Len(df_roads) = 2
    /\ \E j, k \in DOMAIN JoinedNow :
        /\ j # k
        /\ JoinedNow[j].road = JoinedNow[k].road
        /\ JoinedNow[j].total_km < 1
        /\ JoinedNow[k].total_km >= 1
        /\ JoinedNow[j].severity_severe_count > 0
        /\ JoinedNow[k].severity_fatal_count > 0

\* a row whose two ratios are not finite
Sentinel(row) ==
    /\ ~IsFinite(row.fatal_severe_accidents_per_km)
    /\ ~IsFinite(row.fatal_accidents_per_km)

SentinelsLast(df) ==
    \A i, j \in DOMAIN df : (Sentinel(df[i]) /\ ~Sentinel(df[j])) => j < i

SentinelsFirst(df) ==
    \A i, j \in DOMAIN df : (Sentinel(df[i]) /\ ~Sentinel(df[j])) => i < j

ZeroKmKept(df, over) ==
    \A i \in DOMAIN df :
        df[i].total_km = 0 =>
            /\ Sentinel(df[i])
            /\ \A j \in DOMAIN over : over[j] # df[i]

\* C9: a segment or road of total_km = 0 does not make the run fail; its two
\* ratios are not finite, it stays in the full table, it is not in the table
\* of at least 1 km, and it sorts to the same end of the segment table and of
\* the road table whether its accident counts are zero or not.
C9_ZeroKmPlacement ==
    /\ result \in {"none", "ok"}
    /\ pc = "done" =>
        /\ Len(df_total) = Len(JoinedNow)
        /\ ZeroKmKept(df_total, df_total_over_km)
        /\ ZeroKmKept(df_roads, df_roads_over_km)
        /\ \/ SentinelsLast(df_total) /\ SentinelsLast(df_roads)
           \/ SentinelsFirst(df_total) /\ SentinelsFirst(df_roads)

EqualKey(a, b) ==
    \/ SameValue(a.fatal_severe_accidents_per_km, b.fatal_severe_accidents_per_km)
    \/ IsNaN(a.fatal_severe_accidents_per_km) /\ IsNaN(b.fatal_severe_accidents_per_km)

\* where a sorted row stood before the sort: in the joined table (a segment),
\* in the grouped table (a road)
JoinPosition(row) ==
    CHOOSE j \in DOMAIN JoinedNow : JoinedNow[j].segment_id = row.segment_id

GroupPosition(row) ==
    CHOOSE j \in DOMAIN Grouped(df_total) : Grouped(df_total)[j].road = row.road

\* C10: both sorts are stable: two rows of equal fatal_severe_accidents_per_km
\* stand in the sorted table in the order they had before the sort.
C10_StableSort ==
    /\ \A i, j \in DOMAIN df_total :
          (i < j /\ EqualKey(df_total[i], df_total[j])) =>
              JoinPosition(df_total[i]) < JoinPosition(df_total[j])
    /\ \A i, j \in DOMAIN df_roads :
          (i < j /\ EqualKey(df_roads[i], df_roads[j])) =>
              GroupPosition(df_roads[i]) < GroupPosition(df_roads[j])

====
